---- MODULE Spec2Model ----
(***************************************************************************)
(* FomoHead (edgelab/models/heads/fomo_head.py): the target builder        *)
(* build_target and the tolerant metric get_pricsion_recall_f1, run one    *)
(* after the other as lossFunction runs them.                              *)
(*                                                                         *)
(* A cell is <<b, h, w>> (0-based).  A grid is a function over the cells   *)
(* of the shape.  A channel vector is a function over 0..C-1.              *)
(* Fractions and the returned P, R, F1 are exact rationals <<num, den>>.   *)
(***************************************************************************)
EXTENDS Integers, Sequences, FiniteSets, TLC

\* ---------------------------------------------------------------- bounds
MaxB == 1          \* batch sizes 1..MaxB
MaxDim == 3        \* grid heights and widths 2..MaxDim
NumClasses == 2    \* num_classes of the head (C = NumClasses + 1)
MaxAnn == 2        \* annotations per call
MaxPred == 2       \* non-background cells of a prediction map

\* x/y centre fractions in [0,1); dyadic, so the float product is exact
Fracs == {<<0, 1>>, <<1, 2>>}

\* ------------------------------------------------------- program constants
\* the literal of the bounds test `torch.any(site > 11)`
GridLimit == 11

\* self.posit_offset, in the order of the tensor's rows
posit_offset ==
  << <<0, -1, 0>>, <<0, -1, -1>>, <<0, 0, -1>>, <<0, 1, 0>>, <<0, 1, 1>>,
     <<0, 0, 1>>, <<0, 1, -1>>, <<0, -1, 1>>, <<0, 0, 0>> >>

\* self.num_attrib
num_attrib == NumClasses + 1

Channels == 0 .. (num_attrib - 1)

\* ------------------------------------------------------------------ state
VARIABLES
  shape,        \* <<B, H, W>> of preds (C = num_attrib)
  preds,        \* prediction map: cell -> logits per channel
  targets,      \* annotations: sequence of [b, cls, x, y]
  pc,           \* "start", "build", "metric", "match", "confusion", "done", "error"
  k,            \* build_target: number of annotations applied
  target_data,  \* build_target: the grid under construction / returned
  target_max,   \* class-index grid of the target
  preds_max,    \* class-index grid of the prediction
  target_index, \* true object cells, in torch.where order
  preds_index,  \* predicted object cells
  ti,           \* position of the outer loop in target_index
  po,           \* position of the inner loop in posit_offset
  confusion,    \* confusion matrix: <<target class, predicted class>> -> count
  result        \* <<P, R, F1>>

vars == <<shape, preds, targets, pc, k, target_data, target_max, preds_max,
          target_index, preds_index, ti, po, confusion, result>>

NoGrid == <<>>

Cells(s) == (0 .. (s[1] - 1)) \X (0 .. (s[2] - 1)) \X (0 .. (s[3] - 1))

Shapes == (1 .. MaxB) \X (2 .. MaxDim) \X (2 .. MaxDim)

\* ---------------------------------------------------------------- helpers
\* int(frac * n) for a fraction in [0,1)
CellCoord(frac, n) == (frac[1] * n) \div frac[2]

\* torch.argmax over the attribute axis: the first maximal index
ArgMax(v) ==
  CHOOSE i \in DOMAIN v :
    /\ \A j \in DOMAIN v : v[j] <= v[i]
    /\ \A j \in DOMAIN v : j < i => v[j] < v[i]

\* softmax is strictly increasing, so argmax(softmax(v)) = argmax(v)
ArgMaxGrid(g) == [c \in DOMAIN g |-> ArgMax(g[c])]

\* row-major rank of a cell in a grid of shape s
Lin(s, c) == (c[1] * s[2] + c[2]) * s[3] + c[3]

RECURSIVE RowMajor(_, _)
\* torch.stack(torch.where(cond), dim=1): the cells of S in row-major order
RowMajor(s, S) ==
  IF S = {} THEN << >>
  ELSE LET m == CHOOSE c \in S : \A d \in S : Lin(s, c) <= Lin(s, d)
       IN  <<m>> \o RowMajor(s, S \ {m})

\* `site in preds_index`: Tensor.__contains__ is (site == preds_index).any()
Contains(index, site) ==
  \E row \in index : \E j \in 1 .. 3 : row[j] = site[j]

Site(cell, off) == <<cell[1] + off[1], cell[2] + off[2], cell[3] + off[3]>>

\* `torch.any(site < 0) or torch.any(site > 11)`
OutOfBounds(site) ==
  \/ \E j \in 1 .. 3 : site[j] < 0
  \/ \E j \in 1 .. 3 : site[j] > GridLimit

\* ------------------------------------------------------------------ inputs
Annotations(s) ==
  [b : 0 .. (s[1] - 1), cls : 1 .. NumClasses, x : Fracs, y : Fracs]

AnnSeqs(s) == UNION {[1 .. n -> Annotations(s)] : n \in 0 .. MaxAnn}

\* logits of a cell whose largest logit is at channel c
Logits(c) == [a \in Channels |-> IF a = c THEN 2 ELSE IF a = 0 THEN 1 ELSE 0]

PredMaps(s) ==
  UNION {{[c \in Cells(s) |-> IF c \in S THEN Logits(f[c]) ELSE Logits(0)] :
            f \in [S -> 1 .. NumClasses]} :
         S \in {T \in SUBSET Cells(s) : Cardinality(T) <= MaxPred}}

Init ==
  /\ shape \in Shapes
  /\ targets \in AnnSeqs(shape)
  /\ preds \in PredMaps(shape)
  /\ pc = "start"
  /\ k = 0
  /\ target_data = NoGrid
  /\ target_max = NoGrid
  /\ preds_max = NoGrid
  /\ target_index = << >>
  /\ preds_index = {}
  /\ ti = 0
  /\ po = 0
  /\ confusion = NoGrid
  /\ result = << >>

\* ------------------------------------------------------------ build_target
\* faulty variant: the grid is left all zero (`target_data[..., 0] = 1` forgotten)
BackgroundGrid_Zeros(s) == [c \in Cells(s) |-> [a \in Channels |-> 0]]

\* torch.zeros(B, H, W, C) with target_data[..., 0] = 1
BackgroundGrid(s) ==
  [c \in Cells(s) |-> [a \in Channels |-> IF a = 0 THEN 1 ELSE 0]]

\* the cell an annotation maps to: (int(i[0]), int(i[3] * H), int(i[2] * W))
AnnCell(s, ann) == <<ann.b, CellCoord(ann.y, s[2]), CellCoord(ann.x, s[3])>>

\* the body of the loop over targets: clear channel 0, set channel cls
ApplyAnnotation(grid, s, ann) ==
  LET c == AnnCell(s, ann)
  IN  [grid EXCEPT ![c] = [[@ EXCEPT ![0] = 0] EXCEPT ![ann.cls] = 1]]

BuildAlloc ==
  /\ pc = "start"
  /\ target_data' = BackgroundGrid(shape)
  /\ pc' = "build"
  /\ UNCHANGED <<shape, preds, targets, k, target_max, preds_max,
                 target_index, preds_index, ti, po, confusion, result>>

BuildStep ==
  /\ pc = "build"
  /\ k < Len(targets)
  /\ target_data' = ApplyAnnotation(target_data, shape, targets[k + 1])
  /\ k' = k + 1
  /\ UNCHANGED <<shape, preds, targets, pc, target_max, preds_max,
                 target_index, preds_index, ti, po, confusion, result>>

BuildReturn ==
  /\ pc = "build"
  /\ k = Len(targets)
  /\ pc' = "metric"
  /\ UNCHANGED <<shape, preds, targets, k, target_data, target_max, preds_max,
                 target_index, preds_index, ti, po, confusion, result>>

\* -------------------------------------------------- get_pricsion_recall_f1
\* softmax, the two argmax grids, and the two index lists
MetricStart ==
  /\ pc = "metric"
  /\ target_max' = ArgMaxGrid(target_data)
  /\ preds_max' = ArgMaxGrid(preds)
  /\ target_index' =
       RowMajor(shape, {c \in Cells(shape) : ArgMax(target_data[c]) > 0})
  /\ preds_index' = {c \in Cells(shape) : ArgMax(preds[c]) > 0}
  /\ ti' = 1
  /\ po' = 1
  /\ pc' = "match"
  /\ UNCHANGED <<shape, preds, targets, k, target_data, confusion, result>>

InLoop == pc = "match" /\ ti <= Len(target_index)

CurCell == target_index[ti]

CurSite == Site(CurCell, posit_offset[po])

\* the next iteration of `for ti ... for po ...`
Advance ==
  IF po < Len(posit_offset)
  THEN po' = po + 1 /\ ti' = ti
  ELSE po' = 1 /\ ti' = ti + 1

\* indexing a grid at site raises IndexError (negative sites never get here)
IndexError(s, site) == site \notin Cells(s)

\* faulty variant: any predicted object at the site matches, whatever its class
SameClass_AnyObject(pm, tm, site, cell) == pm[site] > 0

\* `preds_max[site] == target_max[ti]`
SameClass(pm, tm, site, cell) == pm[site] = tm[cell]

\* `preds_max[site] = target_max[ti]`
WritePred(pm, tm, site, cell) == [pm EXCEPT ![site] = tm[cell]]

\* faulty variant: the write takes the class the true cell had when the pass began
WriteTarget_Snapshot(tm, site, cell) ==
  [tm EXCEPT ![site] = ArgMax(target_data[cell])]

\* faulty variant: the write takes the predicted class at the true cell
WriteTarget_FromPred(tm, site, cell) == [tm EXCEPT ![site] = preds_max[cell]]

\* `target_max[site] = target_max[ti]`
WriteTarget(tm, site, cell) == [tm EXCEPT ![site] = tm[cell]]

\* `continue`
SkipSite ==
  /\ InLoop
  /\ OutOfBounds(CurSite)
  /\ Advance
  /\ UNCHANGED <<shape, preds, targets, pc, k, target_data, target_max,
                 preds_max, target_index, preds_index, confusion, result>>

\* the condition reads preds_max at a site outside the grid
CrashSite ==
  /\ InLoop
  /\ ~OutOfBounds(CurSite)
  /\ Contains(preds_index, CurSite)
  /\ IndexError(shape, CurSite)
  /\ pc' = "error"
  /\ UNCHANGED <<shape, preds, targets, k, target_data, target_max, preds_max,
                 target_index, preds_index, ti, po, confusion, result>>

\* the condition holds: both grids are written at site
MatchSite ==
  /\ InLoop
  /\ ~OutOfBounds(CurSite)
  /\ Contains(preds_index, CurSite)
  /\ ~IndexError(shape, CurSite)
  /\ SameClass(preds_max, target_max, CurSite, CurCell)
  /\ preds_max' = WritePred(preds_max, target_max, CurSite, CurCell)
  /\ target_max' = WriteTarget(target_max, CurSite, CurCell)
  /\ Advance
  /\ UNCHANGED <<shape, preds, targets, pc, k, target_data, target_index,
                 preds_index, confusion, result>>

\* the condition fails (`and` does not read the grids when `in` fails)
PassSite ==
  /\ InLoop
  /\ ~OutOfBounds(CurSite)
  /\ \/ ~Contains(preds_index, CurSite)
     \/ /\ ~IndexError(shape, CurSite)
        /\ ~SameClass(preds_max, target_max, CurSite, CurCell)
  /\ Advance
  /\ UNCHANGED <<shape, preds, targets, pc, k, target_data, target_max,
                 preds_max, target_index, preds_index, confusion, result>>

\* sklearn confusion_matrix(target, preds, labels=range(num_attrib))
ConfusionMatrix(s, tm, pm) ==
  [e \in Channels \X Channels |->
     Cardinality({c \in Cells(s) : tm[c] = e[1] /\ pm[c] = e[2]})]

RECURSIVE SumOver(_, _)
SumOver(m, E) ==
  IF E = {} THEN 0
  ELSE LET e == CHOOSE x \in E : TRUE IN m[e] + SumOver(m, E \ {e})

\* confusion[0, 0]
Tn(m) == m[<<0, 0>>]

\* np.diagonal(confusion).sum() - tn
Tp(m) == SumOver(m, {e \in DOMAIN m : e[1] = e[2]}) - Tn(m)

\* faulty variant: np.tril(confusion).sum(), the diagonal included
Fn_WithDiagonal(m) == SumOver(m, {e \in DOMAIN m : e[1] >= e[2]})

\* np.tril(confusion, k=-1).sum()
Fn(m) == SumOver(m, {e \in DOMAIN m : e[1] > e[2]})

\* np.triu(confusion, k=1).sum()
Fp(m) == SumOver(m, {e \in DOMAIN m : e[1] < e[2]})

Zero == <<0, 1>>

RMul(a, b) == <<a[1] * b[1], a[2] * b[2]>>
RAdd(a, b) == <<a[1] * b[2] + b[1] * a[2], a[2] * b[2]>>
RDiv(a, b) == <<a[1] * b[2], a[2] * b[1]>>

\* `if tp + fp == 0 or tp + fn == 0`
ZeroDenominator(tp, fn, fp) == tp + fp = 0 \/ tp + fn = 0

\* p, r, f1 from the counts
PRF(tp, fn, fp) ==
  IF ZeroDenominator(tp, fn, fp) THEN <<Zero, Zero, Zero>>
  ELSE LET p == <<tp, tp + fp>>
           r == <<tp, tp + fn>>
           s == RAdd(p, r)
           f1 == IF s[1] # 0 THEN RDiv(RMul(<<2, 1>>, RMul(p, r)), s) ELSE Zero
       IN  <<p, r, f1>>

Confusion ==
  /\ pc = "match"
  /\ ti > Len(target_index)
  /\ confusion' = ConfusionMatrix(shape, target_max, preds_max)
  /\ result' = LET m == ConfusionMatrix(shape, target_max, preds_max)
               IN  PRF(Tp(m), Fn(m), Fp(m))
  /\ pc' = "done"
  /\ UNCHANGED <<shape, preds, targets, k, target_data, target_max, preds_max,
                 target_index, preds_index, ti, po>>

Next ==
  \/ BuildAlloc
  \/ BuildStep
  \/ BuildReturn
  \/ MetricStart
  \/ SkipSite
  \/ CrashSite
  \/ MatchSite
  \/ PassSite
  \/ Confusion

Spec == Init /\ [][Next]_vars

\* ----------------------------------------------------------------- claims
IsOneHot(v) == Cardinality({a \in DOMAIN v : v[a] = 1}) = 1
               /\ \A a \in DOMAIN v : v[a] \in {0, 1}

OneHotAt(v, c) == \A a \in DOMAIN v : v[a] = (IF a = c THEN 1 ELSE 0)

Built == pc \notin {"start", "build"}

\* C1: every cell of the grid build_target builds has exactly one channel
\* equal to 1 and all others 0, after each annotation and when returned.
C1_OneHot ==
  pc # "start" => \A c \in Cells(shape) : IsOneHot(target_data[c])

\* positions of the annotations that map to cell c
Hits(c) == {i \in 1 .. Len(targets) : AnnCell(shape, targets[i]) = c}

LastHit(c) == CHOOSE i \in Hits(c) : \A j \in Hits(c) : j <= i

\* C2: the returned grid is the reference grid: background where no
\* annotation hits, one-hot at the class of the last annotation that hits.
C2_LastWriteWins ==
  Built =>
    \A c \in Cells(shape) :
      IF Hits(c) = {} THEN OneHotAt(target_data[c], 0)
      ELSE OneHotAt(target_data[c], targets[LastHit(c)].cls)

TargetCells == {c \in Cells(shape) : ArgMax(target_data[c]) > 0}

PredCells == {c \in Cells(shape) : ArgMax(preds[c]) > 0}

NonZeroOffsets == {posit_offset[i] : i \in 1 .. Len(posit_offset)} \ {<<0, 0, 0>>}

\* one true cell T, one predicted cell of the same class at T + O, O # 0
NeighbourCase ==
  /\ Len(targets) = 1
  /\ \E O \in NonZeroOffsets :
       PredCells = {Site(AnnCell(shape, targets[1]), O)}
  /\ \A c \in PredCells : ArgMax(preds[c]) = targets[1].cls

\* C3: a single same-class prediction on one of the 8 neighbours of the
\* single true cell is counted as tp = 1, fn = 0, fp = 0.
C3_NeighbourTolerance ==
  (pc = "done" /\ NeighbourCase) =>
    Tp(confusion) = 1 /\ Fn(confusion) = 0 /\ Fp(confusion) = 0

\* C4: a site is skipped exactly when it lies outside the grid, and no site
\* outside the grid is ever read.
C4_SkipExactlyOutside ==
  /\ InLoop => (OutOfBounds(CurSite) <=> CurSite \notin Cells(shape))
  /\ pc # "error"

One(q) == q[2] > 0 /\ q[1] = q[2]

PerfectPrediction ==
  \A c \in Cells(shape) : ArgMax(preds[c]) = ArgMax(target_data[c])

\* C5: when the predicted class of every cell equals the target class of
\* that cell (here with at least one object cell), P = R = F1 = 1.
C5_PerfectPrediction ==
  (pc \in {"done", "error"} /\ PerfectPrediction /\ TargetCells # {}) =>
    pc = "done" /\ One(result[1]) /\ One(result[2]) /\ One(result[3])

\* C6: with no annotations the grid is background everywhere, nothing is
\* raised, and the metric is (0,0,0) when no cell is predicted non-background.
C6_EmptyAnnotations ==
  targets = << >> =>
    /\ pc # "start" => \A c \in Cells(shape) : OneHotAt(target_data[c], 0)
    /\ pc # "error"
    /\ (pc = "done" /\ PredCells = {}) => result = <<Zero, Zero, Zero>>

C6_Witness ==
  targets = << >> /\ pc = "done" /\ PredCells = {}
  /\ result = <<Zero, Zero, Zero>>

\* exact-cell counts on the two class-index grids
CountTp == Cardinality({c \in Cells(shape) :
                          target_max[c] = preds_max[c] /\ target_max[c] > 0})
CountFn == Cardinality({c \in Cells(shape) : target_max[c] > preds_max[c]})
CountFp == Cardinality({c \in Cells(shape) : target_max[c] < preds_max[c]})

InUnit(q) == q[2] > 0 /\ 0 <= q[1] /\ q[1] <= q[2]

\* C7: the result is (0,0,0) when tp+fp = 0 or tp+fn = 0, no denominator is
\* zero, otherwise P = tp/(tp+fp), R = tp/(tp+fn), F1 = 2PR/(P+R) (0 when
\* P+R = 0), and P, R, F1 lie in [0,1].
C7_PrecisionRecallF1 ==
  pc = "done" =>
    LET P == result[1]
        R == result[2]
        F == result[3]
    IN  /\ InUnit(P) /\ InUnit(R) /\ InUnit(F)
        /\ Tn(confusion) = confusion[<<0, 0>>]
        /\ Tp(confusion) = CountTp
        /\ Fn(confusion) = CountFn
        /\ Fp(confusion) = CountFp
        /\ IF CountTp + CountFp = 0 \/ CountTp + CountFn = 0
           THEN P[1] = 0 /\ R[1] = 0 /\ F[1] = 0
           ELSE /\ P[1] * (CountTp + CountFp) = CountTp * P[2]
                /\ R[1] * (CountTp + CountFn) = CountTp * R[2]
                /\ IF P[1] = 0 /\ R[1] = 0 THEN F[1] = 0
                   ELSE F[1] * (P[1] * R[2] + R[1] * P[2])
                          = 2 * P[1] * R[1] * F[2]

C7_Witness ==
  pc = "done" /\ CountTp > 0 /\ CountFp > 0 /\ CountFn > 0
  /\ result[1][1] * 2 = result[1][2]

OrigTargetMax == ArgMaxGrid(target_data)

RECURSIVE PassFrom(_, _, _, _)
\* the target class-index grid after the pass visits the cells of `order`
\* from position i, offset j, starting from grid tm
PassFrom(tm, order, i, j) ==
  IF i > Len(order) THEN tm
  ELSE LET cell == order[i]
           site == Site(cell, posit_offset[j])
           hit == /\ ~OutOfBounds(site)
                  /\ site \in Cells(shape)
                  /\ site \in PredCells
                  /\ ArgMax(preds[site]) = tm[cell]
           tm2 == IF hit THEN [tm EXCEPT ![site] = tm[cell]] ELSE tm
       IN  IF j < Len(posit_offset) THEN PassFrom(tm2, order, i, j + 1)
           ELSE PassFrom(tm2, order, i + 1, 1)

Reverse(q) == [i \in 1 .. Len(q) |-> q[Len(q) + 1 - i]]

\* C8: the pass works on the grids in place: what a step writes at a site is
\* the target class the current true cell holds at that moment, not the one
\* it held when the pass began, so the final grids depend on the order.
C8_InPlaceOrder ==
  [][(pc = "match" /\ target_max' # target_max) =>
       /\ target_max'[CurSite] = target_max[CurCell]
       /\ \A c \in Cells(shape) \ {CurSite} : target_max'[c] = target_max[c]]_vars

C8_Witness ==
  /\ pc = "done"
  /\ \E c \in TargetCells : target_max[c] # ArgMax(target_data[c])
  /\ target_max = PassFrom(OrigTargetMax, target_index, 1, 1)
  /\ target_max # PassFrom(OrigTargetMax, Reverse(target_index), 1, 1)

\* C9: the pass never changes the predicted class-index grid, changes the
\* target class-index grid only at sites with a non-background prediction,
\* and leaves the prediction map and the target grid untouched.
C9_Frame ==
  [][/\ preds' = preds
     /\ Built => target_data' = target_data
     /\ pc = "match" =>
          /\ preds_max' = preds_max
          /\ \A c \in Cells(shape) :
               target_max'[c] # target_max[c] => preds_max[c] > 0]_vars

C9_Witness ==
  /\ pc = "done"
  /\ target_max # OrigTargetMax
  /\ preds_max = ArgMaxGrid(preds)

\* exact-cell counts on the unmodified grids
OrigTp == Cardinality({c \in Cells(shape) :
                         ArgMax(target_data[c]) = ArgMax(preds[c])
                         /\ ArgMax(target_data[c]) > 0})
OrigFn == Cardinality({c \in Cells(shape) :
                         ArgMax(target_data[c]) > ArgMax(preds[c])})
OrigFp == Cardinality({c \in Cells(shape) :
                         ArgMax(target_data[c]) < ArgMax(preds[c])})
CountTn == Cardinality({c \in Cells(shape) :
                          target_max[c] = 0 /\ preds_max[c] = 0})

\* C10: a rewritten cell has target class = predicted class, so during the
\* pass tp is never below, and fp and fn never above, the exact-cell counts
\* of the unmodified grids, and tn + tp + fn + fp = B*H*W.
C10_Monotone ==
  pc \in {"match", "done", "error"} =>
    /\ \A c \in Cells(shape) :
         target_max[c] # ArgMax(target_data[c]) => target_max[c] = preds_max[c]
    /\ CountTp >= OrigTp
    /\ CountFp <= OrigFp
    /\ CountFn <= OrigFn
    /\ CountTn + CountTp + CountFn + CountFp = shape[1] * shape[2] * shape[3]
    /\ pc = "done" =>
         /\ Tp(confusion) >= OrigTp
         /\ Fp(confusion) <= OrigFp
         /\ Fn(confusion) <= OrigFn
         /\ Tn(confusion) + Tp(confusion) + Fn(confusion) + Fp(confusion)
              = shape[1] * shape[2] * shape[3]

C10_Witness ==
  /\ pc = "done"
  /\ Tp(confusion) > OrigTp
  /\ Fp(confusion) < OrigFp
  /\ Fn(confusion) < OrigFn

====
